---- MODULE Spec2Model ----
(***************************************************************************)
(* Model of the hybrid DOM + vision authenticator                          *)
(* (src/src/browser/auth_handler.py, class AuthHandler).                   *)
(*                                                                         *)
(* authenticate() is a sequential loop whose every iteration walks a fixed *)
(* chain of checks.  The chain is modelled with a program counter pc; each *)
(* action is one contiguous block of the loop body.  The browser page, the *)
(* DOM selectors and the vision oracle are the environment: every query    *)
(* the code makes is answered nondeterministically.                        *)
(***************************************************************************)
EXTENDS Integers, Sequences, FiniteSets, TLC

\* ------------------------------------------------------------------------
\* Bounds of the model
\* ------------------------------------------------------------------------
\* authenticate(max_steps=...) : the step budget of one run
max_steps == 7
\* wait_for_human_intervention(max_wait_seconds=...) : the wait budget
max_wait_seconds == 6
\* number of distinct structural fingerprints the page can show
NumFingerprints == 2

\* ------------------------------------------------------------------------
\* Program constants
\* ------------------------------------------------------------------------
max_stuck_iterations == 2

StuckThresholdOffByOne == max_stuck_iterations + 1

\* the threshold the stuck escalation compares the counter with
StuckThreshold == max_stuck_iterations

check_interval == 2

Milestones ==
    {"navigated_to_login", "filled_email", "clicked_continue_after_email",
     "filled_password", "submitted_login"}

ActionTypes == {"click", "type", "navigate", "wait", "scroll", "done"}

Fingerprints == 1..NumFingerprints

\* what decide_login_action returns: the flags and the recommended action
VisionStates ==
    [is_logged_in : BOOLEAN, is_login_page : BOOLEAN, action_type : ActionTypes]

NoVisionState ==
    [is_logged_in |-> FALSE, is_login_page |-> FALSE, action_type |-> "wait"]

\* operations that change the page when they succeed
ActingOps ==
    {"execute", "navigate_to_login_page", "fill_email_field",
     "click_continue_button", "fill_password_field", "submit_login_form"}

VARIABLES
    pc,               \* position inside authenticate
    step,             \* loop variable of "for step in range(1, max_steps + 1)"
    credentials_ok,   \* both identifier and secret were supplied
    actions_taken,    \* self.actions_taken
    previous_state,   \* self.previous_state (0 models None)
    stuck_counter,    \* self.stuck_counter
    page,             \* fingerprint the page currently hashes to
    vision_state,     \* the oracle decision of the current iteration
    wait_site,        \* which step entered wait_for_human_intervention
    initial_state,    \* fingerprint recorded when the wait began
    wait_elapsed,     \* seconds elapsed in the wait
    wait_result,      \* "none" | "changed" | "timeout"
    result,           \* "none" | "true" | "false" | "raised"
    return_site,      \* which return statement ended the run
    events,           \* operations performed in the current iteration
    last_op,          \* most recent structural operation or reset of the run
    prev_op,          \* the one before last_op
    password_entered, \* _fill_password_field was invoked in this run
    submit_gate,      \* history of a verification gate met after submit
    skipped_navigation, \* the loop went on to the form with navigation failed
    structural_pass,  \* every structural check of the run matched a two-step login
    origin,           \* which oracle client produced the executor's action
    oracle_target,    \* the target as the oracle wrote it
    action,           \* the AgentAction handed to ActionExecutor.execute
    num_elements,     \* number of elements the page indexes
    marker_id,        \* local marker_id of _execute_click
    attempts,         \* marker ids passed to _try_click_marker, in order
    primitive,        \* what the page primitive of the action did
    probed,           \* what _execute_click found at the target index
    response,         \* how the oracle's answer parses
    flags,            \* what the client reports next to the action
    typed,            \* the value _execute_type put into the page
    exec_log,         \* values that appear in the executor's log messages
    exec_pc,          \* position inside ActionExecutor.execute
    exec_result,      \* "none" | "true" | "false" | "raised"
    loop_kind,        \* which task loop runs: document_task or execute_task
    task_pc,          \* position inside the task loop
    step_count,       \* iterations of the task loop started so far
    decision,         \* the oracle decision of the current task step
    task_log,         \* operations of the current task step, in order
    screenshots,      \* records held by the ScreenshotManager
    task_result,      \* "none" | "success" | "incomplete" | "error"
    stab_pc,          \* position inside wait_for_stability
    polls,            \* fingerprints polled so far (0: the poll threw)
    previous_hash,    \* previous_hash of wait_for_stability (0 models None)
    stable_count,     \* stable_count of wait_for_stability
    stab_result,      \* "none" | "true" | "false"
    network_wait,     \* "none" | "idle" | "timeout": the wait for network idle
    links,            \* the candidate elements of the page, in document order
    nav_stage,        \* position inside _navigate_to_login_page
    clicked,          \* index of the element that was clicked (0: none)
    records,          \* ScreenshotManager.screenshots
    step_counter,     \* ScreenshotManager.step_counter
    visible_elements, \* elements matched by the selectors of mark_page
    pointer_elements, \* elements found by the cursor check of mark_page
    mark_pc,          \* position inside mark_page
    marked,           \* the descriptors mark_page returned
    mark_outcome,     \* what page.evaluate did inside mark_page
    overlays,         \* the labels of the .som-marker overlays in the page
    removals,         \* calls of remove_markers since the page was marked
    fields,           \* the kinds of the indexed elements, index 0 first
    type_target,      \* the index a type action names
    type_pc,          \* position inside _execute_type
    type_marker,      \* marker_id of _execute_type after the retargeting
    scanned,          \* the indices the forward scan looked at, in order
    doc_pc,           \* position inside document_task
    session,          \* "none" | "created" | "started" | "stopped"
    credentials_given,\* document_task was called with credentials
    login_success,    \* what _handle_login returned ("none": not called)
    doc_steps,        \* step_count of document_task
    exit_path,        \* the way document_task left its try block
    doc_result,       \* "none" | "success" | "incomplete" | "error"
    stops             \* calls of BrowserController.stop

vars ==
    <<pc, step, credentials_ok, actions_taken, previous_state, stuck_counter,
      page, vision_state, wait_site, initial_state, wait_elapsed, wait_result,
      result, return_site, events, last_op, prev_op, password_entered,
      submit_gate, skipped_navigation, structural_pass, origin, oracle_target,
      action, num_elements, marker_id, attempts, primitive, probed, response,
      flags, typed, exec_log, exec_pc, exec_result, loop_kind, task_pc, step_count,
      decision, task_log, screenshots, task_result, stab_pc, polls,
      previous_hash, stable_count, stab_result, network_wait, links, nav_stage,
      clicked,
      records, step_counter, visible_elements, pointer_elements, mark_pc,
      marked, mark_outcome, overlays, removals, fields, type_target, type_pc,
      type_marker, scanned, doc_pc, session, credentials_given, login_success,
      doc_steps, exit_path, doc_result, stops>>

\* state of AuthHandler.authenticate
authVars ==
    <<pc, step, credentials_ok, actions_taken, previous_state, stuck_counter,
      page, vision_state, wait_site, initial_state, wait_elapsed, wait_result,
      result, return_site, events, last_op, prev_op, password_entered,
      submit_gate, skipped_navigation, structural_pass>>

\* state of ActionExecutor.execute
execVars ==
    <<origin, oracle_target, action, num_elements, marker_id, attempts,
      primitive, probed, response, flags, typed, exec_log, exec_pc,
      exec_result>>

\* state of the task loop
taskVars ==
    <<loop_kind, task_pc, step_count, decision, task_log, screenshots,
      task_result>>

\* state of BrowserController.wait_for_stability
stabVars ==
    <<stab_pc, polls, previous_hash, stable_count, stab_result, network_wait>>

\* state of AuthHandler._navigate_to_login_page
navVars == <<links, nav_stage, clicked>>

\* state of the ScreenshotManager
shotVars == <<records, step_counter>>

\* state of SoMMarker.mark_page
markVars ==
    <<visible_elements, pointer_elements, mark_pc, marked, mark_outcome,
      overlays, removals>>

\* state of ActionExecutor._execute_type while it resolves its target
typeVars == <<fields, type_target, type_pc, type_marker, scanned>>

\* state of DocumentationAgent.document_task around its loop
docVars ==
    <<doc_pc, session, credentials_given, login_success, doc_steps, exit_path,
      doc_result, stops>>

outsideType ==
    <<authVars, execVars, taskVars, stabVars, navVars, shotVars, markVars,
      docVars>>

outsideDoc ==
    <<authVars, execVars, taskVars, stabVars, navVars, shotVars, markVars,
      typeVars>>

\* everything but the authenticator, the executor, the task loop
outsideAuth == <<execVars, taskVars, stabVars, navVars, shotVars, markVars,
      typeVars,
      docVars>>

outsideExec == <<authVars, taskVars, stabVars, navVars, shotVars, markVars,
      typeVars,
      docVars>>

outsideTask == <<authVars, execVars, stabVars, navVars, shotVars, markVars,
      typeVars,
      docVars>>

outsideStab == <<authVars, execVars, taskVars, navVars, shotVars, markVars,
      typeVars,
      docVars>>

outsideNav == <<authVars, execVars, taskVars, stabVars, shotVars, markVars,
      typeVars,
      docVars>>

outsideShots == <<authVars, execVars, taskVars, stabVars, navVars, markVars,
      typeVars,
      docVars>>

outsideMark == <<authVars, execVars, taskVars, stabVars, navVars, shotVars,
      typeVars,
      docVars>>

Event(op, ok) == [op |-> op, ok |-> ok]

\* __init__ : no milestone reached yet
InitialActions == [m \in Milestones |-> FALSE]

reset_actions_everything == [m \in Milestones |-> FALSE]

reset_actions_secret_only ==
    [m \in Milestones |-> m \in {"navigated_to_login", "filled_email",
                                  "clicked_continue_after_email"}]

reset_actions_keeps_identifier ==
    [m \in Milestones |-> m \in {"navigated_to_login", "filled_email"}]

reset_actions_keeps_navigation ==
    [m \in Milestones |-> m = "navigated_to_login" /\ actions_taken[m]]

\* _reset_actions : forget the form milestones, keep (force) the navigation one
reset_actions == [m \in Milestones |-> m = "navigated_to_login"]

\* both callers construct the handler with a marker and an executor
HasVisionTools == TRUE

\* ActionExecutor.execute : "done" succeeds without touching the page, every
\* other kind succeeds or fails depending on the page
ExecuteResults(action_type) ==
    IF action_type = "done" THEN {TRUE} ELSE BOOLEAN

\* _vision_fallback_action : the outcomes of running the oracle's action
VisionFallbackResults(vs) ==
    IF HasVisionTools THEN ExecuteResults(vs.action_type) ELSE {FALSE}

\* _vision_fallback_action : the executor is invoked only with both tools
VisionFallbackEvents(ok) ==
    IF HasVisionTools THEN <<Event("execute", ok)>> ELSE <<>>

\* AgentAction.target is absent
NoTarget == [form |-> "none", n |-> 0]

NoAction ==
    [action_type |-> "wait", target |-> NoTarget, value |-> "none",
     mentions_button |-> FALSE]

\* the client has reported nothing yet
NoFlags == [complete |-> FALSE, logged_in |-> FALSE, raised |-> FALSE]

\* no action has been handed to the executor
ExecutorIdle ==
    /\ origin = "none"
    /\ oracle_target = NoTarget
    /\ action = NoAction
    /\ num_elements = 0
    /\ marker_id = 0
    /\ attempts = <<>>
    /\ primitive = "none"
    /\ probed = "none"
    /\ response = "none"
    /\ flags = NoFlags
    /\ typed = "none"
    /\ exec_log = {}
    /\ exec_pc = "idle"
    /\ exec_result = "none"

\* wait_for_stability has not been called
StabilityIdle ==
    /\ stab_pc = "idle"
    /\ polls = <<>>
    /\ previous_hash = 0
    /\ stable_count = 0
    /\ stab_result = "none"
    /\ network_wait = "none"

\* _navigate_to_login_page has not been called
LoginNavIdle ==
    /\ links = <<>>
    /\ nav_stage = "idle"
    /\ clicked = 0

\* ScreenshotManager.__init__
ManagerIdle ==
    /\ records = <<>>
    /\ step_counter = 0

\* mark_page has not been called
MarkerIdle ==
    /\ visible_elements = <<>>
    /\ pointer_elements = <<>>
    /\ mark_pc = "idle"
    /\ marked = <<>>
    /\ mark_outcome = "none"
    /\ overlays = {}
    /\ removals = 0

\* _execute_type has not been called
TypeIdle ==
    /\ fields = <<>>
    /\ type_target = 0
    /\ type_pc = "idle"
    /\ type_marker = 0
    /\ scanned = <<>>

\* document_task has not been called
DocumentIdle ==
    /\ doc_pc = "idle"
    /\ session = "none"
    /\ credentials_given = FALSE
    /\ login_success = "none"
    /\ doc_steps = 0
    /\ exit_path = "none"
    /\ doc_result = "none"
    /\ stops = 0

HelpersIdle ==
    /\ StabilityIdle
    /\ LoginNavIdle
    /\ ManagerIdle
    /\ MarkerIdle
    /\ TypeIdle
    /\ DocumentIdle

NoDecision == [action_type |-> "wait", capture |-> FALSE]

\* no task has been started
TaskLoopIdle ==
    /\ loop_kind = "none"
    /\ task_pc = "idle"
    /\ step_count = 0
    /\ decision = NoDecision
    /\ task_log = <<>>
    /\ screenshots = <<>>
    /\ task_result = "none"

Init ==
    /\ pc = "entry"
    /\ step = 0
    /\ credentials_ok \in BOOLEAN
    /\ actions_taken = InitialActions
    /\ previous_state = 0
    /\ stuck_counter = 0
    /\ page \in Fingerprints
    /\ vision_state = NoVisionState
    /\ wait_site = "none"
    /\ initial_state = 0
    /\ wait_elapsed = 0
    /\ wait_result = "none"
    /\ result = "none"
    /\ return_site = "none"
    /\ events = <<>>
    /\ last_op = "none"
    /\ prev_op = "none"
    /\ password_entered = FALSE
    /\ submit_gate = "none"
    /\ skipped_navigation = FALSE
    /\ structural_pass = TRUE
    /\ ExecutorIdle
    /\ TaskLoopIdle
    /\ HelpersIdle

\* the run ends with "return value" at the named return statement
Return(value, site) ==
    /\ pc' = "done"
    /\ result' = value
    /\ return_site' = site

NoReturn == UNCHANGED <<result, return_site>>

WaitVars == <<wait_site, initial_state, wait_elapsed, wait_result>>

\* a structural operation is recorded as the latest one of the run
Record(op) ==
    /\ last_op' = op
    /\ prev_op' = last_op

NoRecord == UNCHANGED <<last_op, prev_op>>

\* wait_for_human_intervention is entered from the named step
EnterWait(site) ==
    /\ pc' = "wait"
    /\ wait_site' = site
    /\ initial_state' = page
    /\ wait_elapsed' = 0
    /\ wait_result' = "none"

\* an answer of the page that a two-step login with matching selectors never
\* gives: a structural selector that matches nothing, a secret field already
\* visible on the identifier page, a verification page, an error indicator
Mismatch(e) ==
    \/ /\ e.op \in {"navigate_to_login_page", "fill_email_field",
                    "click_continue_button", "fill_password_field",
                    "submit_login_form"}
       /\ ~e.ok
    \/ /\ e.op \in {"is_password_field_visible", "detect_2fa_page",
                    "check_for_error_messages"}
       /\ e.ok

\* structural_pass stays true while no operation of the step gave such an answer
StructuralPassAfter ==
    structural_pass' =
        (structural_pass
            /\ \A i \in (Len(events) + 1)..Len(events') : ~Mismatch(events'[i]))

\* authenticate, credential check before the loop
Entry ==
    /\ pc = "entry"
    /\ IF credentials_ok
          THEN pc' = "loop" /\ NoReturn
          ELSE Return("false", "missing_credentials")
    /\ UNCHANGED <<skipped_navigation, structural_pass>>
    /\ UNCHANGED outsideAuth
    /\ UNCHANGED <<step, credentials_ok, actions_taken, previous_state,
                   stuck_counter, page, vision_state, WaitVars, events,
                   last_op, prev_op, password_entered, submit_gate>>

\* authenticate, head of one iteration: stuck tracking, screenshot, oracle
\* query and the logged-in check
Observe ==
    /\ pc = "loop"
    /\ step < max_steps
    /\ step' = step + 1
    /\ events' = <<>>
    /\ \E fp \in Fingerprints :
          /\ page' = fp
          /\ IF fp = previous_state
                THEN /\ stuck_counter' = stuck_counter + 1
                     /\ UNCHANGED previous_state
                ELSE /\ stuck_counter' = 0
                     /\ previous_state' = fp
    /\ \/ /\ Return("raised", "exception")
          /\ UNCHANGED vision_state
       \/ \E vs \in VisionStates :
             /\ vision_state' = vs
             /\ IF vs.is_logged_in
                   THEN Return("true", "oracle")
                   ELSE pc' = "stuck" /\ NoReturn
    /\ UNCHANGED <<skipped_navigation, structural_pass>>
    /\ UNCHANGED outsideAuth
    /\ UNCHANGED <<credentials_ok, actions_taken, WaitVars, last_op, prev_op,
                   password_entered, submit_gate>>

BudgetExhaustedSucceeds ==
    /\ pc = "loop"
    /\ step >= max_steps
    /\ Return("true", "budget")
    /\ UNCHANGED <<skipped_navigation, structural_pass>>
    /\ UNCHANGED outsideAuth
    /\ UNCHANGED <<step, credentials_ok, actions_taken, previous_state,
                   stuck_counter, page, vision_state, WaitVars, events,
                   last_op, prev_op, password_entered, submit_gate>>

\* authenticate, after the loop: the step budget is exhausted
BudgetExhausted ==
    /\ pc = "loop"
    /\ step >= max_steps
    /\ Return("false", "budget")
    /\ UNCHANGED <<skipped_navigation, structural_pass>>
    /\ UNCHANGED outsideAuth
    /\ UNCHANGED <<step, credentials_ok, actions_taken, previous_state,
                   stuck_counter, page, vision_state, WaitVars, events,
                   last_op, prev_op, password_entered, submit_gate>>

\* the oracle decision is a local of one iteration: it is dropped when the
\* iteration ends or suspends in the human wait, where it is never read again
KeepDecision ==
    vision_state' = IF pc' \in {"loop", "wait"} THEN NoVisionState
                                                ELSE vision_state

StuckCounterKept(success) == stuck_counter

\* authenticate, stuck escalation: a successful oracle action clears the counter
StuckCounterAfterFallback(success) ==
    IF success THEN 0 ELSE stuck_counter

\* authenticate, stuck escalation
StuckFallback ==
    /\ pc = "stuck"
    /\ IF stuck_counter >= StuckThreshold
          THEN \E ok \in VisionFallbackResults(vision_state) :
                  /\ events' = events \o VisionFallbackEvents(ok)
                  /\ stuck_counter' = StuckCounterAfterFallback(ok)
                  /\ pc' = IF ok THEN "loop" ELSE "nav"
          ELSE /\ pc' = "nav"
               /\ UNCHANGED <<stuck_counter, events>>
    /\ NoReturn
    /\ KeepDecision
    /\ StructuralPassAfter
    /\ UNCHANGED skipped_navigation
    /\ UNCHANGED outsideAuth
    /\ UNCHANGED <<step, credentials_ok, actions_taken, previous_state, page,
                   WaitVars, last_op, prev_op, password_entered,
                   submit_gate>>

\* authenticate, login navigation: taken while the milestone is unset
NavStep ==
    /\ pc = "nav"
    /\ IF actions_taken["navigated_to_login"]
          THEN /\ pc' = "email"
               /\ UNCHANGED <<actions_taken, events>>
               /\ NoRecord
          ELSE IF vision_state.is_login_page
          THEN /\ actions_taken' =
                      [actions_taken EXCEPT !["navigated_to_login"] = TRUE]
               /\ pc' = "loop"
               /\ UNCHANGED events
               /\ NoRecord
          ELSE /\ Record("navigate_to_login_page")
               /\ \E dom \in BOOLEAN :
                     IF dom
                        THEN /\ events' = Append(events,
                                    Event("navigate_to_login_page", TRUE))
                             /\ actions_taken' = [actions_taken EXCEPT
                                    !["navigated_to_login"] = TRUE]
                             /\ pc' = "loop"
                        ELSE IF vision_state.action_type = "click"
                        THEN \E ok \in VisionFallbackResults(vision_state) :
                                /\ events' = Append(events,
                                       Event("navigate_to_login_page", FALSE))
                                       \o VisionFallbackEvents(ok)
                                /\ IF ok
                                      THEN /\ actions_taken' =
                                                [actions_taken EXCEPT
                                                 !["navigated_to_login"] = TRUE]
                                           /\ pc' = "loop"
                                      ELSE /\ UNCHANGED actions_taken
                                           /\ pc' = "email"
                        ELSE /\ events' = Append(events,
                                    Event("navigate_to_login_page", FALSE))
                             /\ UNCHANGED actions_taken
                             /\ pc' = "email"
    /\ skipped_navigation' =
          (skipped_navigation
              \/ (pc' = "email" /\ ~actions_taken["navigated_to_login"]))
    /\ NoReturn
    /\ KeepDecision
    /\ StructuralPassAfter
    /\ UNCHANGED outsideAuth
    /\ UNCHANGED <<step, credentials_ok, previous_state, stuck_counter, page,
                   WaitVars, password_entered, submit_gate>>

EmailStepFallsThrough ==
    /\ pc = "email"
    /\ IF actions_taken["filled_email"]
          THEN /\ pc' = "advance"
               /\ UNCHANGED <<actions_taken, events>>
               /\ NoRecord
          ELSE /\ Record("fill_email_field")
               /\ \E ok \in BOOLEAN :
                     /\ events' = Append(events, Event("fill_email_field", ok))
                     /\ actions_taken' = [actions_taken EXCEPT
                            !["filled_email"] = ok]
                     /\ pc' = IF ok THEN "loop" ELSE "advance"
    /\ NoReturn
    /\ KeepDecision
    /\ StructuralPassAfter
    /\ UNCHANGED skipped_navigation
    /\ UNCHANGED outsideAuth
    /\ UNCHANGED <<step, credentials_ok, previous_state, stuck_counter, page,
                   WaitVars, password_entered, submit_gate>>

\* authenticate, step 1: fill the identifier, then start the next iteration
EmailStep ==
    /\ pc = "email"
    /\ IF actions_taken["filled_email"]
          THEN /\ pc' = "advance"
               /\ UNCHANGED <<actions_taken, events>>
               /\ NoRecord
          ELSE /\ Record("fill_email_field")
               /\ \E ok \in BOOLEAN :
                     /\ events' = Append(events, Event("fill_email_field", ok))
                     /\ actions_taken' = [actions_taken EXCEPT
                            !["filled_email"] = ok]
               /\ pc' = "loop"
    /\ NoReturn
    /\ KeepDecision
    /\ StructuralPassAfter
    /\ UNCHANGED skipped_navigation
    /\ UNCHANGED outsideAuth
    /\ UNCHANGED <<step, credentials_ok, previous_state, stuck_counter, page,
                   WaitVars, password_entered, submit_gate>>

SkipContinueClicks ==
    /\ events' = events \o <<Event("is_password_field_visible", TRUE),
                              Event("click_continue_button", TRUE)>>
    /\ Record("click_continue_button")
    /\ actions_taken' =
           [actions_taken EXCEPT !["clicked_continue_after_email"] = TRUE]
    /\ pc' = "loop"
    /\ UNCHANGED WaitVars

\* authenticate, step 2, single-page login: the secret field is already
\* visible, the advance milestone is set and nothing is clicked
SkipContinue ==
    /\ events' = Append(events, Event("is_password_field_visible", TRUE))
    /\ Record("is_password_field_visible")
    /\ actions_taken' =
           [actions_taken EXCEPT !["clicked_continue_after_email"] = TRUE]
    /\ pc' = "loop"
    /\ UNCHANGED WaitVars

\* authenticate, step 2: the check that follows a successful advance; a
\* verification page suspends the run in wait_for_human_intervention
AfterContinue(done) ==
    /\ actions_taken' =
           [actions_taken EXCEPT !["clicked_continue_after_email"] = TRUE]
    /\ \E twofa \in BOOLEAN :
          /\ events' = events \o done \o <<Event("detect_2fa_page", twofa)>>
          /\ IF twofa
                THEN EnterWait("advance")
                ELSE pc' = "loop" /\ UNCHANGED WaitVars

\* authenticate, step 2, multi-step login: click Continue through the DOM
\* and, when no selector matches, through the oracle's action
ClickContinue ==
    /\ Record("click_continue_button")
    /\ \E dom \in BOOLEAN :
          IF dom
             THEN AfterContinue(<<Event("is_password_field_visible", FALSE),
                                  Event("click_continue_button", TRUE)>>)
             ELSE \E ok \in VisionFallbackResults(vision_state) :
                     IF ok
                        THEN AfterContinue(
                                <<Event("is_password_field_visible", FALSE),
                                  Event("click_continue_button", FALSE)>>
                                \o VisionFallbackEvents(ok))
                        ELSE /\ events' = events \o
                                   <<Event("is_password_field_visible", FALSE),
                                     Event("click_continue_button", FALSE)>>
                                   \o VisionFallbackEvents(ok)
                             /\ UNCHANGED actions_taken
                             /\ pc' = "loop"
                             /\ UNCHANGED WaitVars

\* authenticate, step 2: advance past the identifier
AdvanceStep ==
    /\ pc = "advance"
    /\ IF actions_taken["clicked_continue_after_email"]
          THEN /\ pc' = "password"
               /\ UNCHANGED <<actions_taken, events, WaitVars>>
               /\ NoRecord
          ELSE \E password_visible \in BOOLEAN :
                  IF password_visible THEN SkipContinue ELSE ClickContinue
    /\ NoReturn
    /\ KeepDecision
    /\ StructuralPassAfter
    /\ UNCHANGED skipped_navigation
    /\ UNCHANGED outsideAuth
    /\ UNCHANGED <<step, credentials_ok, previous_state, stuck_counter, page,
                   password_entered, submit_gate>>

\* authenticate, step 3: fill the secret, then start the next iteration
PasswordStep ==
    /\ pc = "password"
    /\ IF actions_taken["filled_password"]
          THEN /\ pc' = "submit"
               /\ UNCHANGED <<actions_taken, events, password_entered>>
               /\ NoRecord
          ELSE /\ Record("fill_password_field")
               /\ password_entered' = TRUE
               /\ \E ok \in BOOLEAN :
                     /\ events' = Append(events,
                                         Event("fill_password_field", ok))
                     /\ actions_taken' = [actions_taken EXCEPT
                            !["filled_password"] = ok]
               /\ pc' = "loop"
    /\ NoReturn
    /\ KeepDecision
    /\ StructuralPassAfter
    /\ UNCHANGED skipped_navigation
    /\ UNCHANGED outsideAuth
    /\ UNCHANGED <<step, credentials_ok, previous_state, stuck_counter, page,
                   WaitVars, submit_gate>>

\* authenticate, step 4: submit the form; a verification page found right
\* after a successful submit suspends the run
SubmitStep ==
    /\ pc = "submit"
    /\ IF actions_taken["submitted_login"]
          THEN /\ pc' = "errors"
               /\ UNCHANGED <<actions_taken, events, WaitVars>>
               /\ NoRecord
          ELSE /\ Record("submit_login_form")
               /\ \E ok \in BOOLEAN :
                     IF ok
                        THEN /\ actions_taken' = [actions_taken EXCEPT
                                    !["submitted_login"] = TRUE]
                             /\ \E twofa \in BOOLEAN :
                                   /\ events' = events \o
                                         <<Event("submit_login_form", TRUE),
                                           Event("detect_2fa_page", twofa)>>
                                   /\ IF twofa
                                         THEN EnterWait("submit")
                                         ELSE /\ pc' = "errors"
                                              /\ UNCHANGED WaitVars
                        ELSE /\ events' = Append(events,
                                    Event("submit_login_form", FALSE))
                             /\ UNCHANGED <<actions_taken, WaitVars>>
                             /\ pc' = "errors"
    /\ NoReturn
    /\ KeepDecision
    /\ StructuralPassAfter
    /\ UNCHANGED skipped_navigation
    /\ UNCHANGED outsideAuth
    /\ UNCHANGED <<step, credentials_ok, previous_state, stuck_counter, page,
                   password_entered, submit_gate>>

\* authenticate, error check at the end of an iteration: a visible error
\* indicator resets the milestones for a retry
ErrorCheck ==
    /\ pc = "errors"
    /\ \E error_msg \in BOOLEAN :
          IF error_msg
             THEN /\ events' = events \o
                         <<Event("check_for_error_messages", TRUE),
                           Event("reset_actions", TRUE)>>
                  /\ actions_taken' = reset_actions
                  /\ Record("reset_actions")
                  /\ submit_gate' =
                        IF submit_gate = "cleared"
                           THEN "cleared_reset" ELSE submit_gate
             ELSE /\ events' = Append(events,
                         Event("check_for_error_messages", FALSE))
                  /\ UNCHANGED <<actions_taken, submit_gate>>
                  /\ NoRecord
    /\ pc' = "loop"
    /\ NoReturn
    /\ KeepDecision
    /\ StructuralPassAfter
    /\ UNCHANGED skipped_navigation
    /\ UNCHANGED outsideAuth
    /\ UNCHANGED <<step, credentials_ok, previous_state, stuck_counter, page,
                   WaitVars, password_entered>>

WaitTimedOutGoesOn ==
    /\ wait_result' = "timeout"
    /\ events' = Append(events, Event("wait_for_human_intervention", FALSE))
    /\ UNCHANGED <<page, wait_elapsed, submit_gate>>
    /\ IF wait_site = "advance"
          THEN Return("false", "advance_gate")
          ELSE pc' = "errors" /\ NoReturn

WaitTimedOutSucceeds ==
    /\ wait_result' = "timeout"
    /\ events' = Append(events, Event("wait_for_human_intervention", FALSE))
    /\ Return("true", wait_site \o "_gate")
    /\ UNCHANGED <<page, wait_elapsed, submit_gate>>

\* wait_for_human_intervention, the caller's reaction to a timeout: every
\* call site returns False
WaitTimedOut ==
    /\ wait_result' = "timeout"
    /\ events' = Append(events, Event("wait_for_human_intervention", FALSE))
    /\ Return("false", wait_site \o "_gate")
    /\ UNCHANGED <<page, wait_elapsed, submit_gate>>

WaitChangedAlwaysGoesOn ==
    /\ wait_result' = "changed"
    /\ events' = Append(events, Event("wait_for_human_intervention", TRUE))
    /\ UNCHANGED wait_elapsed
    /\ pc' = IF wait_site = "advance" THEN "loop" ELSE "errors"
    /\ submit_gate' = IF wait_site = "advance" THEN submit_gate ELSE "cleared"
    /\ NoReturn

WaitChangedAlwaysSucceeds ==
    /\ wait_result' = "changed"
    /\ events' = Append(events, Event("wait_for_human_intervention", TRUE))
    /\ UNCHANGED wait_elapsed
    /\ Return("true", wait_site \o "_gate")
    /\ submit_gate' = IF wait_site = "advance" THEN submit_gate ELSE "cleared"

\* wait_for_human_intervention, the caller's reaction to a page change: after
\* the advance step the run succeeds, after submit it goes on checking
WaitChanged ==
    /\ wait_result' = "changed"
    /\ events' = Append(events, Event("wait_for_human_intervention", TRUE))
    /\ UNCHANGED wait_elapsed
    /\ IF wait_site = "advance"
          THEN /\ Return("true", "advance_gate")
               /\ UNCHANGED submit_gate
          ELSE /\ pc' = "errors"
               /\ submit_gate' = "cleared"
               /\ NoReturn

WaitPollClicksContinue ==
    /\ pc = "wait"
    /\ IF wait_elapsed > max_wait_seconds
          THEN WaitTimedOut
          ELSE \E fp \in Fingerprints :
                  /\ page' = fp
                  /\ IF fp # initial_state
                        THEN WaitChanged
                        ELSE /\ wait_elapsed' = wait_elapsed + check_interval
                             /\ events' = Append(events,
                                    Event("click_continue_button", TRUE))
                             /\ UNCHANGED <<pc, wait_result, submit_gate>>
                             /\ NoReturn
    /\ UNCHANGED <<skipped_navigation, structural_pass>>
    /\ UNCHANGED outsideAuth
    /\ UNCHANGED <<step, credentials_ok, actions_taken, previous_state,
                   stuck_counter, vision_state, wait_site, initial_state,
                   last_op, prev_op, password_entered>>

\* wait_for_human_intervention, one turn of its polling loop
WaitPoll ==
    /\ pc = "wait"
    /\ IF wait_elapsed > max_wait_seconds
          THEN WaitTimedOut
          ELSE \E fp \in Fingerprints :
                  /\ page' = fp
                  /\ IF fp # initial_state
                        THEN WaitChanged
                        ELSE /\ wait_elapsed' = wait_elapsed + check_interval
                             /\ UNCHANGED <<pc, wait_result, events,
                                            submit_gate>>
                             /\ NoReturn
    /\ UNCHANGED <<skipped_navigation, structural_pass>>
    /\ UNCHANGED outsideAuth
    /\ UNCHANGED <<step, credentials_ok, actions_taken, previous_state,
                   stuck_counter, vision_state, wait_site, initial_state,
                   last_op, prev_op, password_entered>>

Next ==
    \/ Entry
    \/ Observe
    \/ BudgetExhausted
    \/ StuckFallback
    \/ NavStep
    \/ EmailStep
    \/ AdvanceStep
    \/ PasswordStep
    \/ SubmitStep
    \/ ErrorCheck
    \/ WaitPoll

Spec == Init /\ [][Next]_vars

\* the event loop keeps running the coroutine: every enabled step is taken
FairSpec == Spec /\ WF_vars(Next)

TypeOK ==
    /\ pc \in {"entry", "loop", "stuck", "nav", "email", "advance",
               "password", "submit", "errors", "wait", "done"}
    /\ step \in 0..max_steps
    /\ actions_taken \in [Milestones -> BOOLEAN]
    /\ stuck_counter \in 0..max_steps
    /\ result \in {"none", "true", "false", "raised"}
    /\ (pc = "done") <=> (result # "none")

\* ========================================================================
\* ActionExecutor (src/src/browser/action_executor.py) and the two oracle
\* clients that hand it an action
\* ========================================================================
\* largest marker the oracle names
MaxMarker == 2
\* largest number of elements the page indexes
MaxElements == 2

\* a target string by its shape: "[n]", "n", "[words]", words, or None
Targets ==
    {NoTarget}
        \cup [form : {"bracketed"}, n : (-1)..MaxMarker]
        \cup [form : {"bare"}, n : 0..MaxMarker]
        \cup {[form |-> "bracketed_text", n |-> 0], [form |-> "text", n |-> 0]}

\* the kinds execute dispatches on; "hover" stands for a kind outside the schema
ExecutorKinds == ActionTypes \cup {"hover"}

OracleClients == {"task", "login"}

\* decide_login_action : a target made of digits only gets its brackets
LoginTarget(t) ==
    IF t.form = "bare" THEN [form |-> "bracketed", n |-> t.n] ELSE t

\* _parse_action_response : the target is taken over as the oracle wrote it
TaskTarget(t) == t

DeliveredTarget(client, t) ==
    IF client = "login" THEN LoginTarget(t) ELSE TaskTarget(t)

\* the marker resolves to an element of the page
InRange(m) == m >= 0 /\ m < num_elements

\* _try_click_marker : an existing element is clicked or the click fails; a
\* marker that resolves to nothing cannot be clicked
TryClickResults(m) == IF InRange(m) THEN BOOLEAN ELSE {FALSE}

\* what a page primitive does: it works, it reports failure, or it throws
PrimitiveOutcomes == {"ok", "fails", "throws"}

ResultOfPropagating(outcome) ==
    CASE outcome = "ok" -> "true"
      [] outcome = "fails" -> "false"
      [] outcome = "throws" -> "raised"

\* execute : the except clause turns a throwing primitive into False
ResultOf(outcome) ==
    CASE outcome = "ok" -> "true"
      [] outcome = "fails" -> "false"
      [] outcome = "throws" -> "false"

\* _execute_wait : a timeout of the wait is not a failure
WaitResultOf(outcome) == "true"

\* authenticate has not been called
AuthenticatorIdle ==
    /\ pc = "entry"
    /\ step = 0
    /\ credentials_ok = TRUE
    /\ actions_taken = InitialActions
    /\ previous_state = 0
    /\ stuck_counter = 0
    /\ page = 1
    /\ vision_state = NoVisionState
    /\ wait_site = "none"
    /\ initial_state = 0
    /\ wait_elapsed = 0
    /\ wait_result = "none"
    /\ result = "none"
    /\ return_site = "none"
    /\ events = <<>>
    /\ last_op = "none"
    /\ prev_op = "none"
    /\ password_entered = FALSE
    /\ submit_gate = "none"
    /\ skipped_navigation = FALSE
    /\ structural_pass = TRUE

ExecInit ==
    /\ AuthenticatorIdle
    /\ ExecutorIdle
    /\ TaskLoopIdle
    /\ HelpersIdle

ExecReturn(value) ==
    /\ exec_result' = value
    /\ exec_pc' = "returned"

\* how the text of the oracle's answer parses: an action object, text without
\* JSON, broken JSON, or JSON that is no action of the schema
Responses == {"action", "non_json", "malformed_json", "schema_misfit"}

ParseFailsOnlyWithoutJson(resp) == resp = "non_json"

\* json.loads raises JSONDecodeError
ParseFails(resp) == resp \in {"non_json", "malformed_json"}

\* the tokens the login prompt makes the oracle use in place of the secret
Placeholders == {"[password]", "[provided]"}

\* credentials["password"]
Password == "the_secret"

\* the "value" of the oracle's action: absent, some text, or a placeholder
OracleValues == {"none", "text"} \cup Placeholders

LoginValueOnlyPassword(v) == IF v = "[password]" THEN Password ELSE v

\* decide_login_action : a placeholder is replaced by the secret
LoginValue(v) == IF v \in Placeholders THEN Password ELSE v

\* _parse_action_response : the value is taken as the oracle wrote it
TaskValue(v) == v

DeliveredValue(client, v) ==
    IF client = "login" THEN LoginValue(v) ELSE TaskValue(v)

\* the action both clients fall back to
WaitAction == NoAction

\* decide_next_action : only a parsed "done" marks the task complete
TaskFlags(kind) ==
    [complete |-> kind = "done", logged_in |-> FALSE, raised |-> FALSE]

\* decide_login_action : is_logged_in is taken from the parsed object
LoginFlags(logged_in) ==
    [complete |-> FALSE, logged_in |-> logged_in, raised |-> FALSE]

\* decide_login_action : an exception other than JSONDecodeError escapes
ClientRaised == [complete |-> FALSE, logged_in |-> FALSE, raised |-> TRUE]

\* an oracle client parses the oracle's answer into the action it hands over
Decide ==
    /\ exec_pc = "idle"
    /\ \E client \in OracleClients, resp \in Responses,
          n \in 0..MaxElements :
          /\ origin' = client
          /\ response' = resp
          /\ num_elements' = n
          /\ IF resp = "action"
                THEN \E kind \in ExecutorKinds, t \in Targets,
                        v \in OracleValues, button \in BOOLEAN,
                        logged_in \in BOOLEAN :
                        /\ oracle_target' = t
                        /\ action' =
                              [action_type |-> kind,
                               target |-> DeliveredTarget(client, t),
                               value |-> DeliveredValue(client, v),
                               mentions_button |-> button]
                        /\ flags' = IF client = "login"
                                       THEN LoginFlags(logged_in)
                                       ELSE TaskFlags(kind)
                        /\ exec_pc' = "execute"
                ELSE IF ParseFails(resp) \/ client = "task"
                THEN /\ oracle_target' = NoTarget
                     /\ action' = WaitAction
                     /\ flags' = NoFlags
                     /\ exec_pc' = "execute"
                ELSE /\ flags' = ClientRaised
                     /\ exec_pc' = "raised"
                     /\ UNCHANGED <<oracle_target, action>>
    /\ UNCHANGED <<marker_id, attempts, primitive, probed, typed, exec_log,
                   exec_result>>
    /\ UNCHANGED outsideExec

\* _execute_type and _execute_navigate refuse an action without a value, and
\* _execute_type one without a bracketed number as its target
Refused(a) ==
    \/ a.value = "none"
    \/ a.action_type = "type" /\ a.target.form # "bracketed"

\* _execute_type : what ends up in the page after a successful call
TypedAfter(a, outcome) ==
    IF a.action_type = "type" /\ outcome = "ok" THEN a.value ELSE typed

\* the values the log messages of a successful call carry: "Typed '<value>'
\* into element [N]" and "Navigated to <value>"
LoggedAfter(a, outcome) ==
    IF outcome = "ok" THEN exec_log \cup {a.value} ELSE exec_log

\* execute : dispatch on the kind of the action
Execute ==
    /\ exec_pc = "execute"
    /\ CASE action.action_type = "click" ->
                /\ exec_pc' = "click"
                /\ UNCHANGED <<exec_result, primitive>>
                /\ UNCHANGED <<typed, exec_log>>
         [] action.action_type \in {"type", "navigate"} ->
                IF Refused(action)
                   THEN /\ ExecReturn("false")
                        /\ UNCHANGED <<primitive, typed, exec_log>>
                   ELSE \E outcome \in PrimitiveOutcomes :
                           /\ primitive' = outcome
                           /\ typed' = TypedAfter(action, outcome)
                           /\ exec_log' = LoggedAfter(action, outcome)
                           /\ ExecReturn(ResultOf(outcome))
         [] action.action_type = "scroll" ->
                \E outcome \in PrimitiveOutcomes :
                    /\ primitive' = outcome
                    /\ ExecReturn(ResultOf(outcome))
                    /\ UNCHANGED <<typed, exec_log>>
         [] action.action_type = "wait" ->
                \E outcome \in PrimitiveOutcomes :
                    /\ primitive' = outcome
                    /\ ExecReturn(WaitResultOf(outcome))
                    /\ UNCHANGED <<typed, exec_log>>
         [] action.action_type = "done" ->
                /\ ExecReturn("true")
                /\ UNCHANGED <<primitive, typed, exec_log>>
         [] OTHER ->
                /\ ExecReturn("false")
                /\ UNCHANGED <<primitive, typed, exec_log>>
    /\ UNCHANGED <<origin, oracle_target, action, num_elements, marker_id,
                   attempts, probed, response, flags>>
    /\ UNCHANGED outsideExec

LookaheadMarkerIgnored(a, probe) == a.target.n

\* _execute_click : an input field found where the description means a
\* button or "continue" moves the marker one further
LookaheadMarker(a, probe) ==
    IF probe = "input_field" /\ a.mentions_button
       THEN a.target.n + 1
       ELSE a.target.n

\* _execute_click up to the first click attempt: the target is parsed, and an
\* input field found where a button is meant moves the marker one further
ExecuteClick ==
    /\ exec_pc = "click"
    /\ IF action.target.form # "bracketed"
          THEN /\ ExecReturn("false")
               /\ UNCHANGED <<marker_id, primitive, probed>>
          ELSE IF InRange(action.target.n)
          THEN \E probe \in {"other", "input_field", "throws"} :
                  /\ probed' = probe
                  /\ IF probe = "throws"
                        THEN /\ primitive' = "throws"
                             /\ ExecReturn(ResultOf("throws"))
                             /\ UNCHANGED marker_id
                        ELSE /\ UNCHANGED primitive
                             /\ marker_id' = LookaheadMarker(action, probe)
                             /\ exec_pc' = "primary"
                             /\ UNCHANGED exec_result
          ELSE /\ marker_id' = action.target.n
               /\ exec_pc' = "primary"
               /\ UNCHANGED <<exec_result, primitive, probed>>
    /\ UNCHANGED <<origin, oracle_target, action, num_elements, attempts,
                   response, flags, typed, exec_log>>
    /\ UNCHANGED outsideExec

\* one call of _try_click_marker(m); a failed one leads to the next attempt
Attempt(m, otherwise) ==
    /\ attempts' = Append(attempts, m)
    /\ \E ok \in TryClickResults(m) :
          IF ok THEN ExecReturn("true")
                ELSE IF otherwise = "returned"
                        THEN ExecReturn("false")
                        ELSE exec_pc' = otherwise /\ UNCHANGED exec_result

\* _execute_click : try the requested marker
ClickMarker ==
    /\ exec_pc = "primary"
    /\ Attempt(marker_id, "next")
    /\ UNCHANGED <<origin, oracle_target, action, num_elements, marker_id,
                   primitive, probed, response, flags, typed, exec_log>>
    /\ UNCHANGED outsideExec

ClickNextMarkerTriesPrevious ==
    /\ exec_pc = "next"
    /\ Attempt(marker_id - 1, "previous")
    /\ UNCHANGED <<origin, oracle_target, action, num_elements, marker_id,
                   primitive, probed, response, flags, typed, exec_log>>
    /\ UNCHANGED outsideExec

\* _execute_click : try marker_id + 1
ClickNextMarker ==
    /\ exec_pc = "next"
    /\ Attempt(marker_id + 1, "previous")
    /\ UNCHANGED <<origin, oracle_target, action, num_elements, marker_id,
                   primitive, probed, response, flags, typed, exec_log>>
    /\ UNCHANGED outsideExec

\* _execute_click : marker_id - 1 is tried only for a marker above 0
PreviousMarkerGuard == marker_id > 0

\* _execute_click : try marker_id - 1, then give up
ClickPreviousMarker ==
    /\ exec_pc = "previous"
    /\ IF PreviousMarkerGuard
          THEN Attempt(marker_id - 1, "returned")
          ELSE /\ ExecReturn("false")
               /\ UNCHANGED attempts
    /\ UNCHANGED <<origin, oracle_target, action, num_elements, marker_id,
                   primitive, probed, response, flags, typed, exec_log>>
    /\ UNCHANGED outsideExec

ExecNext ==
    \/ Decide
    \/ Execute
    \/ ExecuteClick
    \/ ClickMarker
    \/ ClickNextMarker
    \/ ClickPreviousMarker

ExecSpec == ExecInit /\ [][ExecNext]_vars

\* ========================================================================
\* The task loop: DocumentationAgent.document_task (src/src/main.py) and
\* WebAutomationAgent.execute_task (src/chat_agent_general.py)
\* ========================================================================
\* the step budget of one task
task_max_steps == 3

TaskLoops == {"document_task", "execute_task"}

\* what decide_next_action returns: the kind of the action and its capture hint
Decisions == [action_type : ActionTypes, capture : BOOLEAN]

TaskInit ==
    /\ AuthenticatorIdle
    /\ ExecutorIdle
    /\ HelpersIdle
    /\ loop_kind \in TaskLoops
    /\ task_pc = "head"
    /\ step_count = 0
    /\ decision = NoDecision
    /\ task_log = <<>>
    /\ screenshots = <<>>
    /\ task_result = "none"

TaskReturn(value) ==
    /\ task_result' = value
    /\ task_pc' = "finished"

BudgetLeftOffByOne == step_count <= task_max_steps

\* the loop condition: another iteration starts while budget is left
BudgetLeft == step_count < task_max_steps

\* head of one iteration: the page is indexed and a screenshot is taken; a
\* page primitive that throws here is caught by the handler around the task
IndexPage ==
    /\ task_pc = "head"
    /\ BudgetLeft
    /\ step_count' = step_count + 1
    /\ \E outcome \in {"ok", "throws"} :
          IF outcome = "ok"
             THEN /\ task_log' = <<"index">>
                  /\ task_pc' = "query"
                  /\ UNCHANGED task_result
             ELSE /\ task_log' = <<"index_throws">>
                  /\ TaskReturn("error")
    /\ UNCHANGED <<loop_kind, decision, screenshots>>
    /\ UNCHANGED outsideTask

\* after the loop: the budget is used up and no decision was "done"
BudgetUsedUp ==
    /\ task_pc = "head"
    /\ ~BudgetLeft
    /\ TaskReturn("incomplete")
    /\ UNCHANGED <<loop_kind, step_count, decision, task_log, screenshots>>
    /\ UNCHANGED outsideTask

\* decide_next_action : every failure inside it becomes a "wait" decision
QueryOracle ==
    /\ task_pc = "query"
    /\ \E d \in Decisions : decision' = d
    /\ task_log' = Append(task_log, "query")
    /\ task_pc' = "record"
    /\ UNCHANGED <<loop_kind, step_count, screenshots, task_result>>
    /\ UNCHANGED outsideTask

\* document_task records on the capture hint, execute_task records every step
Records == loop_kind = "execute_task" \/ decision.capture

\* add_screenshot for the decision just taken, then the test for "done"
RecordScreenshot ==
    /\ task_pc = "record"
    /\ IF Records
          THEN /\ screenshots' = Append(screenshots, step_count)
               /\ task_log' = Append(task_log, "record")
          ELSE UNCHANGED <<screenshots, task_log>>
    /\ IF decision.action_type = "done"
          THEN TaskReturn("success")
          ELSE /\ task_pc' = "execute"
               /\ UNCHANGED task_result
    /\ UNCHANGED <<loop_kind, step_count, decision>>
    /\ UNCHANGED outsideTask

AfterExecuteAborts(ok) == IF ok THEN "stability" ELSE "finished"

\* a failed action starts the next iteration, a successful one waits first
AfterExecute(ok) == IF ok THEN "stability" ELSE "head"

\* the action is run through ActionExecutor.execute
ExecuteAction ==
    /\ task_pc = "execute"
    /\ \E ok \in ExecuteResults(decision.action_type) :
          /\ task_log' =
                Append(task_log, IF ok THEN "execute" ELSE "execute_failed")
          /\ task_pc' = AfterExecute(ok)
    /\ UNCHANGED <<loop_kind, step_count, decision, screenshots, task_result>>
    /\ UNCHANGED outsideTask

\* wait_for_stability after a successful action
WaitForStability ==
    /\ task_pc = "stability"
    /\ task_log' = Append(task_log, "stability")
    /\ task_pc' = "head"
    /\ UNCHANGED <<loop_kind, step_count, decision, screenshots, task_result>>
    /\ UNCHANGED outsideTask

TaskNext ==
    \/ IndexPage
    \/ BudgetUsedUp
    \/ QueryOracle
    \/ RecordScreenshot
    \/ ExecuteAction
    \/ WaitForStability

TaskSpec == TaskInit /\ [][TaskNext]_vars

\* ========================================================================
\* The stability waiter: BrowserController.wait_for_stability
\* (src/src/browser/controller.py)
\* ========================================================================
\* the poll budget of one call (the parameter max_attempts)
max_attempts == 5

\* the number of distinct page contents
NumHashes == 3

\* md5 of page.content()
Hashes == 1..NumHashes

\* page.content() raised instead of delivering a fingerprint
PollThrows == 0

\* "return stable_count >= 2" : what counts as stable once the loop is over
StableChecksAtEnd == 2

StableChecksOffByOne == StableChecksAtEnd

\* "if stable_count >= 3" : the loop returns at the third stable check
StableChecks == 3

StabInit ==
    /\ AuthenticatorIdle
    /\ ExecutorIdle
    /\ TaskLoopIdle
    /\ HelpersIdle

StabReturn(value) ==
    /\ stab_result' = value
    /\ stab_pc' = "returned"

\* wait_for_stability is called: previous_hash = None, stable_count = 0
StartStability ==
    /\ stab_pc = "idle"
    /\ stab_pc' = "poll"
    /\ previous_hash' = 0
    /\ stable_count' = 0
    /\ UNCHANGED <<polls, stab_result, network_wait>>
    /\ UNCHANGED outsideStab

\* one turn of the polling loop
PollContent ==
    /\ stab_pc = "poll"
    /\ Len(polls) < max_attempts
    /\ \E current_hash \in Hashes \cup {PollThrows} :
          /\ polls' = Append(polls, current_hash)
          /\ IF current_hash = PollThrows
                THEN /\ stab_pc' = "after_loop"
                     /\ UNCHANGED <<previous_hash, stable_count, stab_result>>
                ELSE IF current_hash = previous_hash
                THEN /\ stable_count' = stable_count + 1
                     /\ IF stable_count + 1 >= StableChecks
                           THEN /\ StabReturn("true")
                                /\ UNCHANGED previous_hash
                           ELSE /\ previous_hash' = current_hash
                                /\ UNCHANGED <<stab_pc, stab_result>>
                ELSE /\ stable_count' = 0
                     /\ previous_hash' = current_hash
                     /\ UNCHANGED <<stab_pc, stab_result>>
    /\ UNCHANGED network_wait
    /\ UNCHANGED outsideStab

\* after the loop: the wait for network idle (a timeout is ignored), then
\* the verdict from the stable checks counted so far
AfterPolling ==
    /\ \/ stab_pc = "after_loop"
       \/ stab_pc = "poll" /\ Len(polls) >= max_attempts
    /\ \E quiescence \in {"idle", "timeout"} : network_wait' = quiescence
    /\ StabReturn(IF stable_count >= StableChecksAtEnd
                     THEN "true" ELSE "false")
    /\ UNCHANGED <<polls, previous_hash, stable_count>>
    /\ UNCHANGED outsideStab

StabNext ==
    \/ StartStability
    \/ PollContent
    \/ AfterPolling

StabSpec == StabInit /\ [][StabNext]_vars

\* ========================================================================
\* Structural login navigation: AuthHandler._navigate_to_login_page
\* (src/src/browser/auth_handler.py)
\* ========================================================================
\* the number of candidate elements on the page
MaxLinks == 2

\* the login wording the text selectors look for
LoginTexts == {"Sign in", "Log in"}

\* the sign-up wording an element's text may contain
SignUpTerms == {"sign up", "signup", "register"}

\* the targets the href selectors look for
LoginHrefs == {"/login", "/signin"}

\* an element: the login wording and the sign-up wording its text contains,
\* its href and whether it is visible
Links ==
    [login_text : LoginTexts \cup {"none"},
     term : SignUpTerms \cup {"none"},
     href : LoginHrefs \cup {"none"},
     visible : BOOLEAN]

\* the selectors of the first loop, in order
text_selectors == <<"Sign in", "Log in">>

\* the selectors of the fallback loop, in order
href_selectors == <<"/login", "/signin">>

\* ':has-text("<wording>"):not(:has-text("Sign up"))'
TextSelectorMatches(el, wording) ==
    el.login_text = wording /\ el.term # "sign up"

\* '[href*="/login"]:not([href*="sign"])' and its "/signin" counterpart
HrefSelectorMatches(el, target) == el.href = target

\* first loop, the double check: 'sign up', 'signup' and 'register' are skipped
TextFilter(el) == el.term \in {"sign up", "signup", "register"}

\* fallback loop, the text check: only 'sign up' and 'signup' are skipped
HrefFilter(el) == el.term \in {"sign up", "signup"}

\* page.query_selector : the first element in document order that matches
FirstMatch(matching) ==
    IF matching # {}
       THEN CHOOSE i \in matching : \A j \in matching : i <= j
       ELSE 0

RECURSIVE TextLoop(_)
\* the first loop from its k-th selector on: the element it clicks, or 0
TextLoop(k) ==
    IF k > Len(text_selectors)
       THEN 0
       ELSE LET i == FirstMatch({n \in 1..Len(links) :
                        TextSelectorMatches(links[n], text_selectors[k])})
            IN  IF i # 0 /\ links[i].visible /\ ~TextFilter(links[i])
                   THEN i
                   ELSE TextLoop(k + 1)

RECURSIVE HrefLoop(_)
\* the fallback loop from its k-th selector on: the element it clicks, or 0
HrefLoop(k) ==
    IF k > Len(href_selectors)
       THEN 0
       ELSE LET i == FirstMatch({n \in 1..Len(links) :
                        HrefSelectorMatches(links[n], href_selectors[k])})
            IN  IF i # 0 /\ links[i].visible /\ ~HrefFilter(links[i])
                   THEN i
                   ELSE HrefLoop(k + 1)

NavInit ==
    /\ AuthenticatorIdle
    /\ ExecutorIdle
    /\ TaskLoopIdle
    /\ HelpersIdle

\* _navigate_to_login_page is called on some page
StartNavigation ==
    /\ nav_stage = "idle"
    /\ \E n \in 0..MaxLinks : \E page_links \in [1..n -> Links] :
          links' = page_links
    /\ nav_stage' = "text"
    /\ UNCHANGED clicked
    /\ UNCHANGED outsideNav

\* the loop over the text selectors: a click returns True
TryTextSelectors ==
    /\ nav_stage = "text"
    /\ clicked' = TextLoop(1)
    /\ nav_stage' = IF TextLoop(1) # 0 THEN "clicked" ELSE "href"
    /\ UNCHANGED links
    /\ UNCHANGED outsideNav

\* the loop over the href selectors: a click returns True, else False
TryHrefSelectors ==
    /\ nav_stage = "href"
    /\ clicked' = HrefLoop(1)
    /\ nav_stage' = IF HrefLoop(1) # 0 THEN "clicked" ELSE "not_found"
    /\ UNCHANGED links
    /\ UNCHANGED outsideNav

NavNext ==
    \/ StartNavigation
    \/ TryTextSelectors
    \/ TryHrefSelectors

NavSpec == NavInit /\ [][NavNext]_vars

\* ========================================================================
\* The screenshot records: ScreenshotManager (src/src/screenshot/manager.py)
\* ========================================================================
\* the number of records one run of the model adds before it must clear
MaxRecords == 3

ShotInit ==
    /\ AuthenticatorIdle
    /\ ExecutorIdle
    /\ TaskLoopIdle
    /\ HelpersIdle

NextStepNumberStale == step_counter

\* add_screenshot : "self.step_counter += 1"
NextStepNumber == step_counter + 1

\* add_screenshot : the record that is appended
ScreenshotRecord(kind) ==
    [step_number |-> NextStepNumber, action_type |-> kind]

\* add_screenshot
AddScreenshot ==
    /\ Len(records) < MaxRecords
    /\ \E kind \in ActionTypes :
          records' = Append(records, ScreenshotRecord(kind))
    /\ step_counter' = NextStepNumber
    /\ UNCHANGED outsideShots

\* clear
ClearScreenshots ==
    /\ records' = <<>>
    /\ step_counter' = 0
    /\ UNCHANGED outsideShots

ShotNext ==
    \/ AddScreenshot
    \/ ClearScreenshots

ShotSpec == ShotInit /\ [][ShotNext]_vars

\* ========================================================================
\* The indexer: SoMMarker.mark_page (src/src/browser/som_marker.py)
\* ========================================================================
\* the number of elements of the page, named by their document order
NumNodes == 3

Nodes == 1..NumNodes

RECURSIVE InDocumentOrder(_)
\* querySelectorAll : the chosen elements in document order
InDocumentOrder(S) ==
    IF S = {}
       THEN <<>>
       ELSE LET first == CHOOSE n \in S : \A m \in S : n <= m
            IN  <<first>> \o InDocumentOrder(S \ {first})

RECURSIVE Unique(_)
\* Array.from(new Set(...)) : the first occurrence of each element is kept
Unique(seq) ==
    IF seq = <<>>
       THEN <<>>
       ELSE LET front == Unique(SubSeq(seq, 1, Len(seq) - 1))
                last == seq[Len(seq)]
            IN  IF \E i \in 1..Len(front) : front[i] = last
                   THEN front
                   ELSE Append(front, last)

ForEachIndexOneBased(position) == position

\* forEach((el, idx) => ...) : idx of the element at a position (from 1)
ForEachIndex(position) == position - 1

\* the descriptors collected for the merged, deduplicated elements
ElementInfo ==
    LET uniqueElements == Unique(visible_elements \o pointer_elements)
    IN  [position \in 1..Len(uniqueElements) |->
            [marker_id |-> ForEachIndex(position),
             element |-> uniqueElements[position]]]

MarkInit ==
    /\ AuthenticatorIdle
    /\ ExecutorIdle
    /\ TaskLoopIdle
    /\ HelpersIdle

\* mark_page is called on some page: what the two queries of the script find
ScanPage ==
    /\ mark_pc = "idle"
    /\ \E by_selector \in SUBSET Nodes, by_cursor \in SUBSET Nodes :
          /\ visible_elements' = InDocumentOrder(by_selector)
          /\ pointer_elements' = InDocumentOrder(by_cursor)
    /\ mark_pc' = "evaluate"
    /\ UNCHANGED <<marked, mark_outcome, overlays, removals>>
    /\ UNCHANGED outsideMark

\* the overlays the script leaves in the page: one per descriptor
OverlaysOf(info) == {info[position].marker_id : position \in 1..Len(info)}

MarkPagePropagates ==
    /\ mark_pc = "evaluate"
    /\ \E outcome \in {"ok", "throws"} :
          /\ mark_outcome' = outcome
          /\ IF outcome = "ok"
                THEN /\ marked' = ElementInfo
                     /\ overlays' = OverlaysOf(ElementInfo)
                     /\ mark_pc' = "returned"
                ELSE /\ mark_pc' = "raised"
                     /\ UNCHANGED <<marked, overlays>>
    /\ UNCHANGED <<visible_elements, pointer_elements, removals>>
    /\ UNCHANGED outsideMark

\* page.evaluate(marker_script): the descriptors, or [] when it throws
MarkPage ==
    /\ mark_pc = "evaluate"
    /\ \E outcome \in {"ok", "throws"} :
          /\ mark_outcome' = outcome
          /\ IF outcome = "ok"
                THEN /\ marked' = ElementInfo
                     /\ overlays' = OverlaysOf(ElementInfo)
                ELSE /\ marked' = <<>>
                     /\ UNCHANGED overlays
    /\ mark_pc' = "returned"
    /\ UNCHANGED <<visible_elements, pointer_elements, removals>>
    /\ UNCHANGED outsideMark

\* the number of remove_markers calls that follow one mark_page
MaxRemovals == 3

RemainingAfterRemovingFirst(labels) ==
    {label \in labels : \E other \in labels : other < label}

\* querySelectorAll('.som-marker').forEach(el => el.remove())
RemainingAfterRemoval(labels) == {}

\* remove_markers : every overlay is removed; a throwing page is only logged
RemoveMarkers ==
    /\ mark_pc = "returned"
    /\ removals < MaxRemovals
    /\ removals' = removals + 1
    /\ \E outcome \in {"ok", "throws"} :
          overlays' = IF outcome = "ok"
                         THEN RemainingAfterRemoval(overlays)
                         ELSE overlays
    /\ UNCHANGED <<visible_elements, pointer_elements, mark_pc, marked,
                   mark_outcome>>
    /\ UNCHANGED outsideMark

MarkNext ==
    \/ ScanPage
    \/ MarkPage
    \/ RemoveMarkers

MarkSpec == MarkInit /\ [][MarkNext]_vars

\* ========================================================================
\* The target of a type action: ActionExecutor._execute_type
\* (src/src/browser/action_executor.py)
\* ========================================================================
\* the number of indexed elements on the page
MaxFields == 6

\* what _execute_type tells apart: an input or textarea whose type is none
\* of checkbox, radio, submit, button ("text"); an element with one of these
\* types ("non_text"); any other element ("other")
FieldKinds == {"text", "non_text", "other"}

\* _get_element_by_marker : the element at an index, None beyond the page
ElementAt(m) ==
    IF m \in 0..(Len(fields) - 1) THEN fields[m + 1] ELSE "absent"

\* 'element_type in ["checkbox", "radio", "submit", "button"]'
NonText(kind) == kind = "non_text"

\* 'alt_tag in ["input", "textarea"] and alt_type not in [...]'
TextCapable(kind) == kind = "text"

\* "for offset in range(1, 5)"
LastOffset == 4

\* the offsets at which the scan would accept an element
Candidates(m) == {offset \in 1..LastOffset : TextCapable(ElementAt(m + offset))}

FarthestOffset(m) ==
    CHOOSE offset \in Candidates(m) : \A other \in Candidates(m) : offset >= other

\* the scan stops at the first offset it accepts
NearestOffset(m) ==
    CHOOSE offset \in Candidates(m) : \A other \in Candidates(m) : offset <= other

\* marker_id after the scan
Retarget(m) ==
    IF NonText(ElementAt(m)) /\ Candidates(m) # {}
       THEN m + NearestOffset(m)
       ELSE m

\* the indices the scan looks at: up to the accepted one, or all of them
ScannedFrom(m) ==
    IF ~NonText(ElementAt(m))
       THEN <<>>
       ELSE [i \in 1..(IF Candidates(m) # {} THEN NearestOffset(m)
                                             ELSE LastOffset) |-> m + i]

TypeInit ==
    /\ AuthenticatorIdle
    /\ ExecutorIdle
    /\ TaskLoopIdle
    /\ HelpersIdle

\* _execute_type is called with a bracketed index on some page
CallType ==
    /\ type_pc = "idle"
    /\ \E n \in 0..MaxFields : \E page_fields \in [1..n -> FieldKinds] :
          fields' = page_fields
    /\ \E m \in 0..MaxFields : type_target' = m
    /\ type_pc' = "resolve"
    /\ UNCHANGED <<type_marker, scanned>>
    /\ UNCHANGED outsideType

\* the element is looked up and, if it takes no text, the following indices
\* are scanned for one that does
ResolveTarget ==
    /\ type_pc = "resolve"
    /\ IF ElementAt(type_target) = "absent"
          THEN /\ type_pc' = "not_found"
               /\ UNCHANGED <<type_marker, scanned>>
          ELSE /\ type_marker' = Retarget(type_target)
               /\ scanned' = ScannedFrom(type_target)
               /\ type_pc' = "typing"
    /\ UNCHANGED <<fields, type_target>>
    /\ UNCHANGED outsideType

TypeNext ==
    \/ CallType
    \/ ResolveTarget

TypeSpec == TypeInit /\ [][TypeNext]_vars

\* ========================================================================
\* The session around a task: DocumentationAgent.document_task
\* (src/src/main.py) and BrowserController.stop
\* ========================================================================
\* the step budget of the task (the parameter max_steps)
doc_max_steps == 5

DocInit ==
    /\ AuthenticatorIdle
    /\ ExecutorIdle
    /\ TaskLoopIdle
    /\ HelpersIdle

\* an exception inside the try block: the handler builds the error result
DocRaise(stage) ==
    /\ exit_path' = stage
    /\ doc_result' = "error"
    /\ doc_pc' = "finally"

\* the components are constructed, the controller first; the constructors
\* after it stand before the try block, so that an exception of theirs
\* leaves document_task with a controller that was never started
CreateComponents ==
    /\ doc_pc = "idle"
    /\ session' = "created"
    /\ \E given \in BOOLEAN : credentials_given' = given
    /\ \E outcome \in {"ok", "throws"} :
          IF outcome = "ok"
             THEN /\ doc_pc' = "start"
                  /\ UNCHANGED exit_path
             ELSE /\ doc_pc' = "exited"
                  /\ exit_path' = "construction"
    /\ UNCHANGED <<login_success, doc_steps, doc_result, stops>>
    /\ UNCHANGED outsideDoc

\* "await self.browser.start()"
StartBrowser ==
    /\ doc_pc = "start"
    /\ \E outcome \in {"ok", "throws"} :
          IF outcome = "ok"
             THEN /\ session' = "started"
                  /\ doc_pc' = "navigate"
                  /\ UNCHANGED <<exit_path, doc_result>>
             ELSE /\ DocRaise("start")
                  /\ UNCHANGED session
    /\ UNCHANGED <<credentials_given, login_success, doc_steps, stops>>
    /\ UNCHANGED outsideDoc

\* navigation to the starting URL and the wait for the page to be ready
NavigateToApp ==
    /\ doc_pc = "navigate"
    /\ \E outcome \in {"ok", "throws"} :
          IF outcome = "ok"
             THEN /\ doc_pc' = IF credentials_given THEN "login" ELSE "loop"
                  /\ UNCHANGED <<exit_path, doc_result>>
             ELSE DocRaise("navigation")
    /\ UNCHANGED <<session, credentials_given, login_success, doc_steps,
                   stops>>
    /\ UNCHANGED outsideDoc

\* _handle_login : the task goes on whatever the login returned
HandleLogin ==
    /\ doc_pc = "login"
    /\ \E outcome \in {"true", "false", "throws"} :
          IF outcome = "throws"
             THEN /\ DocRaise("login")
                  /\ UNCHANGED login_success
             ELSE /\ login_success' = outcome
                  /\ doc_pc' = "loop"
                  /\ UNCHANGED <<exit_path, doc_result>>
    /\ UNCHANGED <<session, credentials_given, doc_steps, stops>>
    /\ UNCHANGED outsideDoc

\* the guide is generated and the result is built
GuideResult(path) == IF path = "done" THEN "success" ELSE "incomplete"

\* one iteration of the main loop, or its end by the budget; the guide is
\* written after the loop, inside the same try block
TaskStep ==
    /\ doc_pc = "loop"
    /\ IF doc_steps < doc_max_steps
          THEN /\ doc_steps' = doc_steps + 1
               /\ \E outcome \in {"done", "other", "throws"} :
                     CASE outcome = "throws" -> DocRaise("loop")
                       [] outcome = "done" ->
                             /\ exit_path' = "done"
                             /\ doc_pc' = "guide"
                             /\ UNCHANGED doc_result
                       [] OTHER ->
                             UNCHANGED <<doc_pc, exit_path, doc_result>>
          ELSE /\ exit_path' = "budget"
               /\ doc_pc' = "guide"
               /\ UNCHANGED <<doc_steps, doc_result>>
    /\ UNCHANGED <<session, credentials_given, login_success, stops>>
    /\ UNCHANGED outsideDoc

\* the guides are generated and the result is returned
GenerateGuide ==
    /\ doc_pc = "guide"
    /\ \E outcome \in {"ok", "throws"} :
          IF outcome = "ok"
             THEN /\ doc_result' = GuideResult(exit_path)
                  /\ doc_pc' = "finally"
                  /\ UNCHANGED exit_path
             ELSE DocRaise("guide")
    /\ UNCHANGED <<session, credentials_given, login_success, doc_steps,
                   stops>>
    /\ UNCHANGED outsideDoc

StopsOnlyAfterReturn == doc_result # "error"

\* "if self.browser:" : the controller object exists
StopsWhenControllerExists == session # "none"

\* the finally block: the controller is stopped
Cleanup ==
    /\ doc_pc = "finally"
    /\ IF StopsWhenControllerExists
          THEN /\ session' = "stopped"
               /\ stops' = stops + 1
          ELSE UNCHANGED <<session, stops>>
    /\ doc_pc' = "exited"
    /\ UNCHANGED <<credentials_given, login_success, doc_steps, exit_path,
                   doc_result>>
    /\ UNCHANGED outsideDoc

DocNext ==
    \/ CreateComponents
    \/ StartBrowser
    \/ NavigateToApp
    \/ HandleLogin
    \/ TaskStep
    \/ GenerateGuide
    \/ Cleanup

DocSpec == DocInit /\ [][DocNext]_vars

\* ------------------------------------------------------------------------
\* Auxiliary predicates over the event log
\* ------------------------------------------------------------------------
LastEvent == events[Len(events)]

\* operations appended to the log by the current step
NewEvents == {events'[i] : i \in (Len(events) + 1)..Len(events')}

Grows == Len(events') > Len(events) /\ SubSeq(events', 1, Len(events)) = events

\* the current step runs _reset_actions
ResetRuns ==
    /\ pc = "errors"
    /\ events' # <<>>
    /\ events'[Len(events')].op = "reset_actions"

\* ------------------------------------------------------------------------
\* C1  The secret is never entered while the login-navigation milestone is
\*     unset: neither is _fill_password_field invoked nor is filled_password
\*     true while navigated_to_login is false.
\* ------------------------------------------------------------------------
C1_SecretOnlyAfterNavigation ==
    (\/ actions_taken["filled_password"]
     \/ \E i \in DOMAIN events : events[i].op = "fill_password_field")
        => actions_taken["navigated_to_login"]

\* ------------------------------------------------------------------------
\* C2  In every iteration that reaches the stuck check with the counter at 2
\*     or more, the oracle's action is run through the executor, and it is
\*     the first operation of the iteration (no structural step precedes it),
\*     whatever the milestones are.
\* ------------------------------------------------------------------------
C2_StuckForcesOracleFirst ==
    [][(pc = "stuck" /\ stuck_counter >= 2)
          => /\ events = <<>>
             /\ Len(events') = 1
             /\ events'[1].op = "execute"]_vars

C2_Witness ==
    /\ pc = "nav"
    /\ stuck_counter >= 2
    /\ events = <<Event("execute", FALSE)>>
    /\ actions_taken["filled_email"]

SecretFieldFound ==
    /\ pc = "advance"
    /\ actions_taken["filled_email"]
    /\ ~actions_taken["clicked_continue_after_email"]
    /\ Grows
    /\ events'[Len(events) + 1] = Event("is_password_field_visible", TRUE)

C4_SkipWithoutAnyExecution ==
    [][(/\ SecretFieldFound
        /\ actions_taken["navigated_to_login"]
        /\ last_op = "fill_email_field"
        /\ prev_op = "none")
          => /\ actions_taken'["clicked_continue_after_email"]
             /\ \A i \in DOMAIN events' :
                   events'[i].op \notin {"execute", "click_continue_button"}]_vars

\* C4  (amended) When the advance step is reached with the identifier
\*     filled, the advance milestone unset and the secret field visible, the
\*     step sets the advance milestone and ends the iteration; the step
\*     itself performs only the visibility probe, no click and no oracle
\*     action.  An oracle action found in the same iteration was executed
\*     before the advance step by an escalation, and it failed.
C4_SinglePageSkipsAdvance ==
    [][SecretFieldFound
          => /\ actions_taken'["clicked_continue_after_email"]
             /\ events' = Append(events,
                                 Event("is_password_field_visible", TRUE))
             /\ pc' = "loop"
             /\ \A i \in DOMAIN events' :
                   /\ events'[i].op # "click_continue_button"
                   /\ events'[i].op = "execute"
                         => (i <= Len(events) /\ ~events'[i].ok)]_vars

C4_Witness ==
    /\ pc = "loop"
    /\ events = <<Event("is_password_field_visible", TRUE)>>
    /\ actions_taken["clicked_continue_after_email"]
    /\ ~actions_taken["filled_password"]

\* ------------------------------------------------------------------------
\* C5  (original) A verification gate detected right after the advance step
\*     makes authenticate return True, and the secret-entry step is never
\*     reached in that run.  Stated for the runs that never go on
\*     to the form with login navigation failed.
\* ------------------------------------------------------------------------
C5_GateAfterAdvanceIsSuccess ==
    (/\ pc = "done"
     /\ return_site = "advance_gate"
     /\ ~skipped_navigation)
        => (result = "true" /\ ~password_entered)

\* C5  (amended) A verification gate detected right after the advance step
\*     ends the run in the human wait: True when a page change is observed,
\*     False on timeout; the secret is not entered after that identifier
\*     submission (the advance is the last structural operation of the run
\*     and filled_password is false on return).
C5_GateAfterAdvanceEndsRun ==
    (wait_site = "advance" /\ wait_result # "none")
        => /\ pc = "done"
           /\ return_site = "advance_gate"
           /\ result = (IF wait_result = "changed" THEN "true" ELSE "false")
           /\ last_op = "click_continue_button"
           /\ ~actions_taken["filled_password"]

C5_Witness ==
    /\ pc = "done"
    /\ return_site = "advance_gate"
    /\ wait_result = "changed"
    /\ result = "true"

\* ------------------------------------------------------------------------
\* C6  Once a verification gate is detected the human-intervention wait
\*     always ends, and a wait that times out without a change makes
\*     authenticate return False: the run is over, it does not go on.
\* ------------------------------------------------------------------------
C6_WaitEndsAndTimeoutFails ==
    /\ (pc = "wait") ~> (pc # "wait")
    /\ [](wait_result = "timeout" => (pc = "done" /\ result = "false"))

C6_Witness ==
    /\ pc = "done"
    /\ wait_result = "timeout"
    /\ wait_site = "submit"
    /\ result = "false"

\* ------------------------------------------------------------------------
\* C7  (original) After a gate met after submit is cleared, authenticate
\*     returns True only through an oracle decision that reports an
\*     authenticated state.  Stated for the runs that never go on
\*     to the form with login navigation failed.
\* ------------------------------------------------------------------------
C7_OnlyOracleAfterSubmitGate ==
    (/\ pc = "done"
     /\ submit_gate # "none"
     /\ result = "true"
     /\ ~skipped_navigation)
        => return_site = "oracle"

\* C7  (amended) Clearing a gate met after submit does not end the run: the
\*     error check follows.  Afterwards True is returned only by an oracle
\*     decision reporting an authenticated state or, once the error-recovery
\*     reset has run, by clearing an identifier-stage gate; exhausting the
\*     step budget returns False.
C7_SubmitGateKeepsChecking ==
    /\ (/\ events # <<>>
        /\ LastEvent = Event("wait_for_human_intervention", TRUE)
        /\ wait_site = "submit")
          => (pc = "errors" /\ result = "none")
    /\ (pc = "done" /\ submit_gate # "none" /\ result = "true")
          => \/ return_site = "oracle"
             \/ return_site = "advance_gate" /\ submit_gate = "cleared_reset"
    /\ return_site = "budget" => result = "false"

C7_Witness ==
    /\ pc = "done"
    /\ submit_gate = "cleared"
    /\ result = "true"
    /\ return_site = "oracle"

\* ------------------------------------------------------------------------
\* C8  A milestone that is true stays true in every step except the one
\*     that runs _reset_actions, and navigated_to_login never goes from
\*     true to false, the reset included.
\* ------------------------------------------------------------------------
C8_MilestonesMonotonic ==
    [][\A m \in Milestones :
          (actions_taken[m] /\ ~actions_taken'[m])
             => (ResetRuns /\ m # "navigated_to_login")]_vars

C8_Witness ==
    /\ last_op = "reset_actions"
    /\ prev_op = "submit_login_form"
    /\ actions_taken["navigated_to_login"]
    /\ ~actions_taken["submitted_login"]

\* ------------------------------------------------------------------------
\* C9  (original) The retry reset leaves filled_email as it was.  Stated
\*     for the runs that never go on to the form with login navigation
\*     failed.
\* ------------------------------------------------------------------------
C9_ResetKeepsIdentifier ==
    [][(ResetRuns /\ ~skipped_navigation)
          => actions_taken'["filled_email"] = actions_taken["filled_email"]]_vars

\* C9  (amended) The retry reset un-sets filled_email and
\*     clicked_continue_after_email together with filled_password and
\*     submitted_login, and sets navigated_to_login, so the retry starts
\*     again at the identifier-entry step.
C9_ResetClearsFormMilestones ==
    [][ResetRuns
          => /\ actions_taken["filled_email"]
             /\ actions_taken' =
                  [navigated_to_login |-> TRUE,
                   filled_email |-> FALSE,
                   clicked_continue_after_email |-> FALSE,
                   filled_password |-> FALSE,
                   submitted_login |-> FALSE]]_vars

C9_Witness ==
    /\ pc = "loop"
    /\ events # <<>>
    /\ LastEvent.op = "reset_actions"
    /\ ~actions_taken["filled_email"]

\* ------------------------------------------------------------------------
\* C10 A visible error indicator found by the check that follows a submit
\*     attempt clears the identifier, advance, secret and submit milestones
\*     but not the navigation one, and the next structural step attempted
\*     is identifier entry.
\* ------------------------------------------------------------------------
C10_ErrorRetriesFromIdentifier ==
    [][/\ (pc = "errors" /\ Grows
              /\ Event("check_for_error_messages", TRUE) \in NewEvents)
          => /\ ResetRuns
             /\ \/ actions_taken["submitted_login"]
                \/ \E i \in DOMAIN events : events[i].op = "submit_login_form"
             /\ \A m \in Milestones \ {"navigated_to_login"} :
                   ~actions_taken'[m]
             /\ actions_taken'["navigated_to_login"]
       /\ (last_op = "reset_actions" /\ last_op' # last_op)
          => last_op' = "fill_email_field"]_vars

C10_Witness ==
    /\ prev_op = "reset_actions"
    /\ last_op = "fill_email_field"
    /\ actions_taken["filled_email"]

\* ------------------------------------------------------------------------
\* C11 On a two-step login whose structural selectors match at every step
\*     (no secret field on the identifier page, no verification page, no
\*     error indicator) the milestones are reached in the order
\*     navigated_to_login, filled_email, clicked_continue_after_email,
\*     filled_password, submitted_login, and no action recommended by the
\*     oracle is run through the executor.
\* ------------------------------------------------------------------------
C11_StructuralPassNeverEscalates ==
    structural_pass
        => /\ actions_taken["filled_email"]
                 => actions_taken["navigated_to_login"]
           /\ actions_taken["clicked_continue_after_email"]
                 => actions_taken["filled_email"]
           /\ actions_taken["filled_password"]
                 => actions_taken["clicked_continue_after_email"]
           /\ actions_taken["submitted_login"]
                 => actions_taken["filled_password"]
           /\ \A i \in DOMAIN events : events[i].op # "execute"

\* ------------------------------------------------------------------------
\* C12 authenticate runs at most max_steps iterations and obtains an oracle
\*     decision only at the head of an iteration; when the budget is used up
\*     it returns False; every run comes to an end.
\* ------------------------------------------------------------------------
C12_BudgetBoundsTheRun ==
    /\ [](step <= max_steps)
    /\ [](return_site = "budget" => (result = "false" /\ step = max_steps))
    /\ [][(vision_state' # vision_state /\ vision_state' # NoVisionState)
             => (pc = "loop" /\ step' = step + 1)]_vars
    /\ <>(pc = "done")

C12_Witness ==
    /\ pc = "done"
    /\ return_site = "budget"
    /\ step = max_steps
    /\ \A m \in Milestones : actions_taken[m]

\* ------------------------------------------------------------------------
\* C13 authenticate returns True only from the iteration whose oracle
\*     decision reports is_logged_in, or from the verification wait entered
\*     at the advance step (before any secret was filled) once the page was
\*     seen to change; nothing else, the five milestones included, makes
\*     the run succeed.
\* ------------------------------------------------------------------------
C13_SuccessOnlyByOracleOrGate ==
    result = "true"
        => \/ /\ return_site = "oracle"
              /\ vision_state.is_logged_in
           \/ /\ return_site = "advance_gate"
              /\ wait_site = "advance"
              /\ wait_result = "changed"
              /\ page # initial_state
              /\ actions_taken["clicked_continue_after_email"]
              /\ ~actions_taken["filled_password"]
              /\ ~actions_taken["submitted_login"]

C13_Witness ==
    /\ result = "true"
    /\ return_site = "advance_gate"
    /\ LastEvent = Event("wait_for_human_intervention", TRUE)

\* ------------------------------------------------------------------------
\* C14 A click whose marker resolves to no element is retried at marker + 1
\*     and then at marker - 1 (as far as that is not below 0) before the
\*     executor reports failure, and no click is ever attempted at a
\*     negative marker.
\* ------------------------------------------------------------------------
C14_AdjacentRetryNeverNegative ==
    /\ \A i \in DOMAIN attempts : attempts[i] >= 0
    /\ (/\ exec_pc = "returned"
        /\ exec_result = "false"
        /\ action.action_type = "click"
        /\ action.target.form = "bracketed"
        /\ ~InRange(action.target.n))
          => attempts =
                IF action.target.n > 0
                   THEN <<action.target.n, action.target.n + 1,
                          action.target.n - 1>>
                   ELSE <<action.target.n, action.target.n + 1>>

\* ------------------------------------------------------------------------
\* C15 A click target the oracle wrote as bare digits reaches the executor's
\*     marker resolution as the index those digits name, whichever oracle
\*     client (task loop or authenticator) delivered the action.
\* ------------------------------------------------------------------------
C15_BareDigitsReachTheIndex ==
    (/\ oracle_target.form = "bare"
     /\ action.action_type = "click"
     /\ exec_pc \in {"primary", "next", "previous", "returned"})
        => action.target = [form |-> "bracketed", n |-> oracle_target.n]

\* ------------------------------------------------------------------------
\* C16 execute ends with a boolean for every action and every behaviour of
\*     the page primitives, a throwing primitive included; "done" gives True
\*     without any page primitive or click attempt, a kind outside the
\*     schema gives False.
\* ------------------------------------------------------------------------
C16_ExecuteAlwaysReturnsBoolean ==
    /\ exec_result \in {"none", "true", "false"}
    /\ exec_pc = "returned" <=> exec_result \in {"true", "false"}
    /\ primitive = "throws"
          => exec_result = IF action.action_type = "wait" THEN "true"
                                                          ELSE "false"
    /\ (exec_pc = "returned" /\ action.action_type = "done")
          => (exec_result = "true" /\ primitive = "none" /\ attempts = <<>>)
    /\ (exec_pc = "returned" /\ action.action_type \notin ActionTypes)
          => exec_result = "false"

C16_Witness ==
    /\ exec_pc = "returned"
    /\ action.action_type = "navigate"
    /\ primitive = "throws"
    /\ exec_result = "false"

C18_FailedActionKeepsLooping ==
    [][/\ (task_pc = "execute"
              /\ task_log' = Append(task_log, "execute_failed"))
          => (task_pc' = "head" /\ task_result' = "none")
       /\ (task_pc = "head" /\ step_count < task_max_steps)
          => /\ step_count' = step_count + 1
             /\ task_log' \in {<<"index">>, <<"index_throws">>}]_vars

C18_Witness ==
    /\ task_pc = "head"
    /\ step_count < task_max_steps
    /\ task_log # <<>>
    /\ task_log[Len(task_log)] = "execute_failed"
    /\ task_result = "none"

\* ------------------------------------------------------------------------
\* C19 Within a step of the task loop the screenshot record of an action is
\*     appended only after the action was executed and the wait for
\*     stability was done.
\* ------------------------------------------------------------------------
C19_RecordFollowsExecution ==
    \A i \in DOMAIN task_log :
        task_log[i] = "record"
            => /\ \E j \in 1..(i - 1) : task_log[j] = "execute"
               /\ \E j \in 1..(i - 1) : task_log[j] = "stability"

\* ------------------------------------------------------------------------
\* C20 A page primitive that throws during a step of the task loop leaves
\*     the task running: the step counts as failed and the loop goes on to
\*     the next iteration.
\* ------------------------------------------------------------------------
C20_ThrowingPrimitiveKeepsLooping ==
    task_log = <<"index_throws">>
        => (task_pc = "head" /\ task_result = "none")

\* ---------------------------------------------------------------------------
\* C21: authenticate returns a boolean and never raises, whatever collaborator
\* fails: the screenshot primitive, the oracle call, or an oracle answer that
\* is JSON but does not fit the action schema.
C21_AuthenticateNeverRaises == result # "raised"

\* the executor calls of the current iteration of authenticate
ExecutorCalls == {i \in 1..Len(events) : events[i].op = "execute"}

\* C26: the action of one decision cycle of the authenticator is passed to the
\* executor at most once, whatever escalations the iteration runs (in a run
\* that never went on to the identifier with the navigation still failed).
C26_ActionConsumedAtMostOnce ==
    ~skipped_navigation => Cardinality(ExecutorCalls) <= 1

\* C28: while the authenticator is suspended in the human-intervention wait,
\* a step only reads the session: it logs no operation but the wait's own
\* outcome, and it changes neither the milestones nor the last structural
\* operation nor the record of the secret having been entered.
C28_WaitOnlyReads ==
    [][pc = "wait" =>
          /\ SubSeq(events', 1, Len(events)) = events
          /\ \A e \in NewEvents : e.op = "wait_for_human_intervention"
          /\ UNCHANGED <<actions_taken, last_op, prev_op, password_entered,
                         credentials_ok, stuck_counter>>]_vars

\* the wait has polled at least once without seeing a change
C28_Witness == pc = "wait" /\ wait_elapsed > 0

\* C22: an oracle answer that is not JSON, or is broken JSON, makes either
\* client hand over a "wait" action without raising, and marks neither the
\* task complete nor the session authenticated.
C22_ParseFailureMeansWait ==
    (exec_pc # "idle" /\ response \in {"non_json", "malformed_json"}) =>
        /\ action.action_type = "wait"
        /\ ~flags.raised
        /\ ~flags.complete
        /\ ~flags.logged_in

\* the login client fell back on broken JSON and the wait was executed
C22_Witness ==
    /\ origin = "login"
    /\ response = "malformed_json"
    /\ exec_pc = "returned"
    /\ action = WaitAction

C24_PlaceholderNeverTyped ==
    origin = "login" =>
        /\ action.value \notin Placeholders
        /\ typed \notin Placeholders

\* the executor typed the secret that stands where the placeholder stood
C24_Witness ==
    /\ origin = "login"
    /\ action.action_type = "type"
    /\ typed = Password
    /\ exec_result = "true"

\* the fingerprints polled so far (a poll that threw delivered none)
PolledHashes == SelectSeq(polls, LAMBDA h : h # PollThrows)

\* the last k fingerprints polled are one and the same
LastIdentical(k) ==
    /\ Len(PolledHashes) >= k
    /\ \A i \in (Len(PolledHashes) - k + 1)..Len(PolledHashes) :
          PolledHashes[i] = PolledHashes[Len(PolledHashes)]

\* every poll delivered a fingerprint, and each differs from the one before
AllDiffer ==
    /\ polls = PolledHashes
    /\ \A i \in 2..Len(polls) : polls[i] # polls[i - 1]

\* C25 (as stated): the page is declared stable as soon as three consecutive
\* polls return identical fingerprints; when every fingerprint differs from
\* the one before, not-stable is returned after exactly max_attempts polls.
C25_StableAfterThreeIdenticalPolls ==
    /\ LastIdentical(3) => stab_result = "true"
    /\ (stab_pc = "returned" /\ AllDiffer) =>
          (stab_result = "false" /\ Len(polls) = max_attempts)

\* C25 (amended): the loop declares the page stable as soon as four
\* consecutive polls return identical fingerprints (three stable checks), and
\* returns before its budget or a throwing poll ends it in no other case; the
\* verdict once the call has returned is "stable" exactly when the last three
\* fingerprints polled are identical; when every fingerprint differs from
\* the one before, not-stable is returned after exactly max_attempts polls.
C25_StableAfterThreeStableChecks ==
    /\ (polls = PolledHashes /\ LastIdentical(4)) =>
          (stab_pc = "returned" /\ stab_result = "true")
    /\ (stab_pc = "returned" /\ polls = PolledHashes
          /\ Len(polls) < max_attempts) => LastIdentical(4)
    /\ stab_pc = "returned" => (stab_result = "true" <=> LastIdentical(3))
    /\ (stab_pc = "returned" /\ AllDiffer) =>
          (stab_result = "false" /\ Len(polls) = max_attempts)

\* three identical polls have not ended the call; the fourth does
C25_Witness ==
    /\ stab_pc = "returned"
    /\ stab_result = "true"
    /\ Len(polls) = 4
    /\ LastIdentical(4)

\* C27: the structural login navigation never clicks an element whose text
\* contains 'sign up', 'signup' or 'register', even when the element matches
\* a login text or a login href.
C27_NeverClicksSignUp ==
    clicked # 0 => links[clicked].term \notin SignUpTerms

\* C29: a step of the screenshot manager either appends one record, whose
\* step_number is its position in the list (so the numbers are 1, 2, 3, ...
\* without a gap, in emission order), or clears both the list and the counter.
C29_RecordsNumberedInOrder ==
    [][\/ /\ Len(records') = Len(records) + 1
          /\ SubSeq(records', 1, Len(records)) = records
          /\ \A k \in 1..Len(records') : records'[k].step_number = k
          /\ step_counter' = Len(records')
       \/ /\ records' = <<>>
          /\ step_counter' = 0]_vars

\* two records have been added, a "done" and then a "click"
C29_Witness ==
    /\ Len(records) = 2
    /\ step_counter = 2
    /\ records[1].action_type = "done"
    /\ records[2].action_type = "click"

\* C30: the descriptors one pass of mark_page returns carry their zero-based
\* position as marker_id: the first has 0, the i-th has i, none is repeated.
C30_MarkerIdIsPosition ==
    mark_pc = "returned" =>
        /\ \A position \in 1..Len(marked) :
              marked[position].marker_id = position - 1
        /\ \A a, b \in 1..Len(marked) :
              marked[a].marker_id = marked[b].marker_id => a = b

\* both queries found elements, one of them in common, and all were indexed
C30_Witness ==
    /\ mark_pc = "returned"
    /\ Len(visible_elements) = 2
    /\ Len(pointer_elements) = 2
    /\ Len(marked) = 3
    /\ marked[1].marker_id = 0

\* C31: the indexer returns an empty sequence, and does not raise, both for a
\* page without interactive elements and when the page communication fails.
C31_EmptyWithoutRaising ==
    /\ mark_pc # "raised"
    /\ (mark_pc = "returned"
          /\ \/ mark_outcome = "throws"
             \/ visible_elements = <<>> /\ pointer_elements = <<>>)
       => marked = <<>>

\* a page with interactive elements was scanned and the communication failed
C31_Witness ==
    /\ mark_pc = "returned"
    /\ mark_outcome = "throws"
    /\ visible_elements # <<>>
    /\ marked = <<>>

\* C32: a remove_markers call on a page that has no labels leaves it without
\* labels, a call removes either every label or (the page failing) none, and
\* no call fails or changes anything but the labels.
C32_RemoveMarkersIdempotent ==
    [][removals' # removals =>
          /\ overlays = {} => overlays' = {}
          /\ overlays' \in {{}, overlays}
          /\ mark_pc' = "returned"
          /\ UNCHANGED <<visible_elements, pointer_elements, marked>>]_vars

\* labels were injected, and remove_markers ran twice
C32_Witness ==
    /\ marked # <<>>
    /\ removals = 2
    /\ overlays = {}

\* the structural operations of the five states of authenticate
StateOps == ActingOps \ {"execute"}

\* C33: whenever the structural selectors of a state matched nothing, the
\* same iteration goes on to execute the oracle's action through the executor
\* (in a run that never went on to the identifier with the navigation failed).
C33_FailedSelectorsEscalate ==
    (pc = "loop" /\ ~skipped_navigation) =>
        \A i \in 1..Len(events) :
            (events[i].op \in StateOps /\ ~events[i].ok) =>
                \E j \in (i + 1)..Len(events) : events[j].op = "execute"

\* C34: once wait_for_stability has returned, by identical fingerprints or by
\* a used-up budget, it has waited for network idle before, and a timeout of
\* that wait neither changed the verdict nor raised.
C34_NetworkWaitBeforeReturn ==
    stab_pc = "returned" =>
        /\ network_wait # "none"
        /\ stab_result \in {"true", "false"}
        /\ stab_result = "true" <=> LastIdentical(3)

\* C35: a click whose description mentions a button or "continue" and whose
\* target index holds an input of type password, text or email makes its
\* first click attempt at index + 1, not at the target index.
C35_LookaheadShiftsFirstAttempt ==
    (action.action_type = "click" /\ action.mentions_button
        /\ probed = "input_field" /\ attempts # <<>>) =>
        /\ attempts[1] = action.target.n + 1
        /\ attempts[1] # action.target.n

\* the shifted first attempt has been made
C35_Witness ==
    /\ action.mentions_button
    /\ probed = "input_field"
    /\ attempts = <<action.target.n + 1>>

\* the index the k-th click attempt is made at
AttemptIndex(k) ==
    CASE k = 1 -> marker_id
      [] k = 2 -> marker_id + 1
      [] OTHER -> marker_id - 1

\* C39: a click makes at most three attempts, at m', m' + 1 and m' - 1 in
\* that order (m' the index after the lookahead correction), each only while
\* none has succeeded; after a correction the third one is at the original
\* index.
C39_ThreeAttemptsInOrder ==
    [][attempts' # attempts =>
          /\ exec_result = "none"
          /\ Len(attempts') <= 3
          /\ attempts' = Append(attempts, AttemptIndex(Len(attempts) + 1))
          /\ (Len(attempts') = 3 /\ probed = "input_field"
                 /\ action.mentions_button) =>
                attempts'[3] = action.target.n]_vars

\* after a correction all three attempts were made, the last at the target
C39_Witness ==
    /\ probed = "input_field"
    /\ action.mentions_button
    /\ Len(attempts) = 3
    /\ attempts[3] = action.target.n
    /\ exec_pc = "returned"

\* C36: a type action whose target holds a non-text input is retargeted to
\* the nearest of the following four indices that holds a text-capable input
\* or textarea; the scan looks at no index beyond target + 4 and at none
\* below the target, and any other target is kept.
C36_RetargetsWithinFour ==
    type_pc = "typing" =>
        /\ \A i \in 1..Len(scanned) :
              scanned[i] \in (type_target + 1)..(type_target + 4)
        /\ type_marker \in type_target..(type_target + 4)
        /\ ~NonText(ElementAt(type_target)) => type_marker = type_target
        /\ (NonText(ElementAt(type_target)) /\ type_marker # type_target) =>
              /\ TextCapable(ElementAt(type_marker))
              /\ \A m \in (type_target + 1)..(type_marker - 1) :
                    ~TextCapable(ElementAt(m))
        /\ (NonText(ElementAt(type_target)) /\ type_marker = type_target) =>
              \A m \in (type_target + 1)..(type_target + 4) :
                  ~TextCapable(ElementAt(m))

\* a checkbox at index 0, nothing that takes text before index 3
C36_Witness ==
    /\ type_pc = "typing"
    /\ type_target = 0
    /\ NonText(ElementAt(0))
    /\ type_marker = 3
    /\ scanned = <<1, 2, 3>>

\* C37: the milestones respect the order of the steps: the secret is marked
\* filled only with the identifier filled and the advance step done, and the
\* form is marked submitted only with the secret filled.
C37_MilestonesInStepOrder ==
    /\ actions_taken["filled_password"] =>
          /\ actions_taken["filled_email"]
          /\ actions_taken["clicked_continue_after_email"]
    /\ actions_taken["submitted_login"] => actions_taken["filled_password"]

\* the form was submitted, with every earlier milestone set
C37_Witness ==
    /\ actions_taken["submitted_login"]
    /\ actions_taken["filled_password"]
    /\ actions_taken["filled_email"]
    /\ pc = "loop"

\* C38: the error-recovery reset leaves the login-navigation milestone true
\* whatever it was before; a true milestone stays true and, while it is
\* true, no step makes a login-navigation attempt.
C38_NoNavigationAfterReset ==
    [][/\ ResetRuns => actions_taken'["navigated_to_login"]
       /\ actions_taken["navigated_to_login"] =>
             /\ actions_taken'["navigated_to_login"]
             /\ \A e \in NewEvents : e.op # "navigate_to_login_page"
             /\ last_op' # last_op => last_op' # "navigate_to_login_page"]_vars

\* the reset has run in a run whose navigation attempts had all failed
C38_Witness ==
    /\ skipped_navigation
    /\ last_op = "reset_actions"
    /\ actions_taken["navigated_to_login"]
    /\ pc = "loop"

\* C40: document_task has stopped the browser session, once, whenever it has
\* left: after a "done" decision, after a used-up budget, and after an
\* exception during start, navigation, login or the loop.
\* No exit leaves a started session open.
C40_SessionStoppedOnEveryExit ==
    doc_pc = "exited" =>
        /\ exit_path \in {"done", "budget", "start", "navigation", "login",
                          "loop", "guide"}
              => session = "stopped" /\ stops = 1
        /\ session # "started"

\* the login raised, and the session was stopped all the same
C40_Witness ==
    /\ doc_pc = "exited"
    /\ exit_path = "login"
    /\ doc_result = "error"
    /\ session = "stopped"

====
